---- MODULE Spec2Model ----
(***************************************************************************)
(* A model of mermaid-cli (src/main.go): argument validation, the render   *)
(* session (NewRenderer / Render / Stop), the batch pass and the watch     *)
(* loop with its ticker and its signal channel.                            *)
(*                                                                         *)
(* File names are sequences of one-character strings, so that HasSuffix    *)
(* and TrimSuffix are computed as the strings package computes them.       *)
(* Log and error messages are sequences of text chunks ("error: " and the  *)
(* newline are chunks of their own), so that fatalf's prefix and suffix    *)
(* tests are computed too.                                                 *)
(***************************************************************************)
EXTENDS Integers, Sequences, FiniteSets, TLC

\* ------------------------------------------------------------------ bounds
\* Longest argument list tried.
MaxArgs == 2
\* Modification timestamps are 0..MaxTime.
MaxTime == 1
\* Longest source text tried, in characters.
MaxText == 2
\* The most edits of one source file in the runs about repeated edits; the
\* times of the edits are 1..MaxEdits.
MaxEdits == 2

\* --------------------------------------------------------------- constants
mmd == <<".", "m", "m", "d">>
svg == <<".", "s", "v", "g">>

\* The names given on the command line in the runs explored: the documents
\* a.mmd and d/b.mmd, and n.md, which lacks the extension. A list may name a
\* document more than once.
DocNames == << <<"a">> \o mmd, <<"d", "/", "b">> \o mmd >>
OtherNames == { <<"n", ".", "m", "d">> }
InputNames == { DocNames[m] : m \in 1..Len(DocNames) } \cup OtherNames

Times == 0..MaxTime
\* The contents a document can have in the runs about the files' times: two
\* texts.
Graph == <<"g", "r", "a", "p", "h">>
Flowchart == <<"f", "l", "o", "w">>
Docs == {Graph, Flowchart}

\* The characters of the source texts in the runs about the texts: a letter,
\* the quote, the backslash, the newline, the control character U+0001, the
\* closing parenthesis, the less-than sign, a byte that is not valid UTF-8
\* (0xFF), the replacement character U+FFFD and the line separator U+2028.
\* A text is a sequence of characters, each a string of its own.
Chars == {"a", "\"", "\\", "\n", "SOH", ")", "<", "xFF", "U+FFFD", "U+2028"}
Texts == UNION { [1..n -> Chars] : n \in 0..MaxText }

\* A value that is no document and no output.
NoData == <<"none">>

\* What an output file holds after an os.WriteFile that failed once the file
\* was opened and truncated.
Partial == <<"partial">>

\* The directories given with -outdir=DIR in the runs that have this argument.
OutDirs == { <<"o">> }

\* ------------------------------------------------------------ pure helpers
\* strings.HasSuffix
HasSuffix(s, suffix) ==
  /\ Len(s) >= Len(suffix)
  /\ SubSeq(s, Len(s) - Len(suffix) + 1, Len(s)) = suffix

\* strings.HasPrefix
HasPrefix(s, prefix) ==
  /\ Len(s) >= Len(prefix)
  /\ SubSeq(s, 1, Len(prefix)) = prefix

\* strings.TrimSuffix
TrimSuffix(s, suffix) ==
  IF HasSuffix(s, suffix) THEN SubSeq(s, 1, Len(s) - Len(suffix)) ELSE s

\* A variant of After that also holds of equal times; C4 must fail with it.
AfterOrEqual(t, u) == t >= u

\* time.Time.After
After(t, u) == t > u

\* The renderPair main builds for one input name.
MakePair(inputName) ==
  [mmdName |-> inputName, svgName |-> TrimSuffix(inputName, mmd) \o svg]

\* What the engine's renderSVG returns for a document: an opaque function of
\* the source text (an echoing engine).
RenderSVG(doc) == <<"svg", doc>>

\* The format fatalf hands to log.Fatalf.
FatalFormat(format) ==
  LET f1 == IF ~HasPrefix(format, <<"error: ">>) THEN <<"error: ">> \o format ELSE format
  IN  IF ~HasSuffix(f1, <<"\n">>) THEN f1 \o <<"\n">> ELSE f1

\* The formats of the fatalf calls.
FmtBadInput == <<"got input MermaidJS document %s; expected it to end with %s">>
FmtStat == <<"couldn't get info: %v">>
FmtRead == <<"couldn't read MMD: %v">>
FmtWrite == <<"couldn't write SVG: %v">>
FmtRender == <<"couldn't render: %v">>
FmtSetUp == <<"set up headless browser: %w">>
FmtInitialize == <<"initialize mermaid: %w">>
FmtInject == <<"inject additional JavaScript: %w">>

\* What flag.Parse writes for a flag that is not defined, and what usage
\* writes: the usage line, then flag.PrintDefaults' lines.
FlagErrorLine == <<"flag provided but not defined: -", "outdir", "\n">>
UsageLine == <<"usage: mermaid-cli [-l] [-w] file.mmd [file2.mmd ...]", "\n">>
FlagDefaults == <<"  -l", "\t", "turn on logging", "\n", "  -w", "\t", "watch files and render", "\n">>

\* ------------------------------------------------------------------- state
VARIABLES
  args,        \* flag.Args(): the input names, in command-line order
  watchFlag,   \* -w
  logFlag,     \* -l
  outdirArg,   \* DIR when the command line has -outdir=DIR before the input
               \* names, NoData when it has not
  pc,          \* where the main goroutine is
  i,           \* the index of the range loop the main goroutine is in
  ret,         \* the loop render(pair) returns to: "batch", "init" or "tick"
  pairs,       \* main's pairs
  logOut,      \* the log package's output: "stderr" or "discard"
  logFlags,    \* the log package's flags: 3 (date and time) or 0
  stderr,      \* the writes made to os.Stderr, in order
  renderer,    \* the session: "none", "starting", "ready", "stopped"
  sessions,    \* how many times NewRenderer was entered
  stopCalls,   \* how many times Stop was called
  inFlight,    \* how many Render calls the engine has been sent and has not
               \* answered
  calls,       \* the Render calls issued in the current pass (the batch,
               \* the initial pass or one tick), in order
  src,         \* render's b: the document read
  svgResult,   \* render's svgResult
  sigAtEntry,  \* whether a signal had been delivered when render was entered
  modTimes,    \* watchAndRender's modTimes map
  seen,        \* per source, the time modTime last returned for it
  files,       \* the filesystem: per input name, its mtime and its content
  out,         \* the filesystem: per output name, the content written
  notify,      \* signal.Notify(stop, ...) has been called
  tickerOn,    \* time.NewTicker has been called
  tickPending, \* a tick is buffered in ticker.C (capacity 1)
  sigArrived,  \* a SIGINT or SIGTERM has been delivered to the process
  exitStatus   \* the process's exit status once pc = "exited"

vars ==
  << args, watchFlag, logFlag, outdirArg, pc, i, ret, pairs, logOut, logFlags, stderr,
     renderer, sessions, stopCalls, inFlight, calls, src, svgResult, sigAtEntry,
     modTimes, seen,
     files, out, notify, tickerOn, tickPending, sigArrived, exitStatus >>

\* The variables only the program's inputs set.
inputVars == << args, watchFlag, logFlag, outdirArg >>
\* The session.
sessionVars == << renderer, sessions, stopCalls, inFlight >>
\* The log package and the error stream.
logVars == << logOut, logFlags, stderr >>
\* The ticker and the signal channel.
chanVars == << notify, tickerOn, tickPending, sigArrived >>
\* render's locals.
localVars == << src, svgResult, sigAtEntry >>

\* The argument lists of length 0..MaxArgs, up to a renaming of the documents
\* (the program looks at a name's suffix only): a document's first use comes
\* after the first use of the document before it in DocNames.
ArgLists ==
  { l \in UNION { [1..n -> InputNames] : n \in 0..MaxArgs } :
      \A m \in 2..Len(DocNames), k \in 1..Len(l) :
        l[k] = DocNames[m] => \E j \in 1..(k - 1) : l[j] = DocNames[m - 1] }

\* The state at the start of main for a command line whose input names are
\* one of lists and whose -outdir argument is one of dirs, with sources whose
\* content is one of docs.
InitFrom(lists, dirs, docs) ==
  /\ args \in lists
  /\ watchFlag \in BOOLEAN
  /\ logFlag \in BOOLEAN
  /\ outdirArg \in dirs
  /\ pc = "main"
  /\ i = 1
  /\ ret = "batch"
  /\ pairs = << >>
  /\ logOut = "stderr"
  /\ logFlags = 3
  /\ stderr = << >>
  /\ renderer = "none"
  /\ sessions = 0
  /\ stopCalls = 0
  /\ inFlight = 0
  /\ calls = << >>
  /\ src = NoData
  /\ svgResult = NoData
  /\ sigAtEntry = FALSE
  /\ modTimes = << >>
  /\ seen = << >>
  /\ \E d \in docs : files = [n \in InputNames |-> [mtime |-> 0, doc |-> d]]
  /\ out = [n \in {MakePair(a).svgName : a \in InputNames} |-> NoData]
  /\ notify = FALSE
  /\ tickerOn = FALSE
  /\ tickPending = FALSE
  /\ sigArrived = FALSE
  /\ exitStatus = 0

\* The same for any of the argument lists and sources that hold Graph.
InitWith(dirs) == InitFrom(ArgLists, dirs, {Graph})

\* The start of main for a command line with the flags the program defines.
Init == InitWith({NoData})

\* The start of main for one source, a.mmd, whose content is any text.
InitTexts == InitFrom({ << DocNames[1] >> }, {NoData}, Texts)

\* The start of main for a command line that may have -outdir=DIR too.
InitFlags == InitWith({NoData} \cup OutDirs)


\* ------------------------------------------------------------ the log package
\* A variant of enableLogging that leaves the log package as it is; C10 must
\* fail with it.
EnableLoggingNoop == UNCHANGED << logFlags, logOut >>

\* enableLogging's setting of the log package.
EnableLogging ==
  /\ logFlags' = 3
  /\ logOut' = "stderr"

\* The error stream after the log package's Output(msg) with the given
\* output and flags: a line of its own (a newline is added if msg has none),
\* with the date and time in front when flags say so.
LogOutput(output, flags, msg) ==
  IF output = "stderr"
  THEN Append(stderr, [hdr |-> flags,
                       msg |-> IF HasSuffix(msg, <<"\n">>) THEN msg ELSE msg \o <<"\n">>])
  ELSE stderr

\* The error stream after log.Println(msg).
Println(msg) == LogOutput(logOut, logFlags, msg \o <<"\n">>)

\* A variant of fatalf that logs the message and returns; C18 must fail with
\* it.
FatalfReturns(format) ==
  /\ EnableLogging
  /\ stderr' = LogOutput(logOut', logFlags', FatalFormat(format))
  /\ UNCHANGED << pc, exitStatus >>

\* fatalf: logging is enabled, the message is logged, and the process exits
\* with status 1 (log.Fatalf calls os.Exit), running no later code.
Fatalf(format) ==
  /\ EnableLogging
  /\ stderr' = LogOutput(logOut', logFlags', FatalFormat(format))
  /\ pc' = "exited"
  /\ exitStatus' = 1

\* usage: the usage text on the error stream, exit status 2.
Usage ==
  /\ stderr' = stderr \o << [hdr |-> 0, msg |-> UsageLine], [hdr |-> 0, msg |-> FlagDefaults] >>
  /\ pc' = "exited"
  /\ exitStatus' = 2
  /\ UNCHANGED << logOut, logFlags >>

\* flag.Parse at a flag that is not defined: the flag package writes its
\* message and calls flag.Usage, which is usage.
FlagUndefined ==
  /\ stderr' = stderr \o << [hdr |-> 0, msg |-> FlagErrorLine],
                            [hdr |-> 0, msg |-> UsageLine],
                            [hdr |-> 0, msg |-> FlagDefaults] >>
  /\ pc' = "exited"
  /\ exitStatus' = 2
  /\ UNCHANGED << logOut, logFlags >>

\* ------------------------------------------------------------------ main
\* flag.Parse and the test for missing arguments.
ParseArgs ==
  /\ pc = "main"
  /\ IF outdirArg # NoData
     THEN FlagUndefined
     ELSE IF Len(args) < 1
          THEN Usage
          ELSE pc' = "setlog" /\ UNCHANGED << logVars, exitStatus >>
  /\ UNCHANGED << inputVars, i, ret, pairs, sessionVars, calls, localVars,
                  modTimes, seen, files, out, chanVars >>

\* The switch on *logFlag.
ConfigureLogging ==
  /\ pc = "setlog"
  /\ IF logFlag
     THEN EnableLogging
     ELSE logFlags' = 0 /\ logOut' = "discard"
  /\ pc' = "validate"
  /\ i' = 1
  /\ UNCHANGED << inputVars, ret, pairs, stderr, sessionVars, calls, localVars,
                  modTimes, seen, files, out, chanVars, exitStatus >>

\* A variant of the validation test that looks at the last two characters
\* only; C7 must fail with it.
ValidNameLoose(inputName) == HasSuffix(inputName, <<"m", "d">>)

\* The test the validation loop makes of one input name.
ValidName(inputName) == HasSuffix(inputName, mmd)

\* One iteration of the loop over flag.Args(), or its end.
ValidateArg ==
  /\ pc = "validate"
  /\ IF i <= Len(args)
     THEN IF ~ValidName(args[i])
          THEN Fatalf(FmtBadInput) /\ UNCHANGED << i, pairs >>
          ELSE /\ pairs' = Append(pairs, MakePair(args[i]))
               /\ i' = i + 1
               /\ UNCHANGED << pc, logVars, exitStatus >>
     ELSE /\ pc' = "newrenderer"
          /\ UNCHANGED << i, pairs, logVars, exitStatus >>
  /\ UNCHANGED << inputVars, ret, sessionVars, calls, localVars, modTimes, seen,
                  files, out, chanVars >>

\* ------------------------------------------------------------ NewRenderer
\* NewRenderer's entry: the log line and chromedp.NewContext.
NewRenderer ==
  /\ pc = "newrenderer"
  /\ stderr' = Println(<<"starting headless browser">>)
  /\ sessions' = sessions + 1
  /\ renderer' = "starting"
  /\ pc' = "launch"
  /\ UNCHANGED << inputVars, i, ret, pairs, logOut, logFlags, stopCalls,
                  inFlight, calls, localVars, modTimes, seen, files, out,
                  chanVars, exitStatus >>

\* The first chromedp.Run, first part: the context has no browser yet, so
\* Run starts one; an error is returned to the same test as the evaluation's.
LaunchBrowser ==
  /\ pc = "launch"
  /\ \E ok \in BOOLEAN :
       IF ok
       THEN pc' = "load" /\ UNCHANGED << logVars, exitStatus >>
       ELSE Fatalf(FmtSetUp)
  /\ UNCHANGED << inputVars, i, ret, pairs, sessionVars, calls, localVars,
                  modTimes, seen, files, out, chanVars >>

\* The first chromedp.Run, second part: MermaidJS is evaluated in the browser.
LoadMermaid ==
  /\ pc = "load"
  /\ \E ok \in BOOLEAN :
       IF ok
       THEN pc' = "initialize" /\ UNCHANGED << logVars, exitStatus >>
       ELSE Fatalf(FmtSetUp)
  /\ UNCHANGED << inputVars, i, ret, pairs, sessionVars, calls, localVars,
                  modTimes, seen, files, out, chanVars >>

\* A variant of InitializeMermaid that reports its error with the message of
\* the first chromedp.Run; C15 must fail with it.
InitializeMermaidAsSetUp ==
  /\ pc = "initialize"
  /\ \E ok \in BOOLEAN :
       IF ok
       THEN pc' = "extras" /\ UNCHANGED << logVars, exitStatus >>
       ELSE Fatalf(FmtSetUp)
  /\ UNCHANGED << inputVars, i, ret, pairs, sessionVars, calls, localVars,
                  modTimes, seen, files, out, chanVars >>

\* The second chromedp.Run: mermaid.initialize(config).
InitializeMermaid ==
  /\ pc = "initialize"
  /\ \E ok \in BOOLEAN :
       IF ok
       THEN pc' = "extras" /\ UNCHANGED << logVars, exitStatus >>
       ELSE Fatalf(FmtInitialize)
  /\ UNCHANGED << inputVars, i, ret, pairs, sessionVars, calls, localVars,
                  modTimes, seen, files, out, chanVars >>

\* A variant of InjectExtras that does not look at the error of the third
\* chromedp.Run; C2 must fail with it.
InjectExtrasUnchecked ==
  /\ pc = "extras"
  /\ \E ok \in BOOLEAN :
       /\ renderer' = IF ok THEN "ready" ELSE renderer
       /\ pc' = "dispatch"
       /\ UNCHANGED << logVars, exitStatus >>
  /\ UNCHANGED << inputVars, i, ret, pairs, sessions, stopCalls, inFlight,
                  calls, localVars, modTimes, seen, files, out, chanVars >>

\* The third chromedp.Run: register renderSVG; then NewRenderer returns and
\* main assigns the session to renderer.
InjectExtras ==
  /\ pc = "extras"
  /\ \E ok \in BOOLEAN :
       IF ok
       THEN /\ renderer' = "ready"
            /\ pc' = "dispatch"
            /\ UNCHANGED << logVars, exitStatus >>
       ELSE Fatalf(FmtInject) /\ UNCHANGED renderer
  /\ UNCHANGED << inputVars, i, ret, pairs, sessions, stopCalls, inFlight,
                  calls, localVars, modTimes, seen, files, out, chanVars >>

\* The steps of NewRenderer that can fail: the browser's launch, the load of
\* MermaidJS, mermaid.initialize, the registration of renderSVG.
StartSteps == {"launch", "load", "initialize", "extras"}

\* The chromedp.Run call of NewRenderer a step belongs to.
RunOf(step) ==
  CASE step = "launch" -> 1
    [] step = "load" -> 1
    [] step = "initialize" -> 2
    [] step = "extras" -> 3

\* The format of the fatalf that follows a chromedp.Run call of NewRenderer.
RunFormat(run) ==
  CASE run = 1 -> FmtSetUp
    [] run = 2 -> FmtInitialize
    [] run = 3 -> FmtInject

\* The switch on *watchFlag.
Dispatch ==
  /\ pc = "dispatch"
  /\ pc' = IF watchFlag THEN "winit" ELSE "batch"
  /\ i' = 1
  /\ calls' = << >>
  /\ UNCHANGED << inputVars, ret, pairs, logVars, sessionVars, localVars,
                  modTimes, seen, files, out, chanVars, exitStatus >>

\* A variant of the batch loop that stops one pair early; C3 must fail with it.
BatchNextOffByOne ==
  /\ pc = "batch"
  /\ IF i < Len(pairs)
     THEN pc' = "read" /\ ret' = "batch" /\ sigAtEntry' = sigArrived
     ELSE pc' = "stop" /\ UNCHANGED << ret, sigAtEntry >>
  /\ UNCHANGED << inputVars, i, pairs, logVars, sessionVars, calls, src, svgResult,
                  modTimes, seen, files, out, chanVars, exitStatus >>

\* One iteration of the batch loop over pairs (a call of render), or its end.
BatchNext ==
  /\ pc = "batch"
  /\ IF i <= Len(pairs)
     THEN pc' = "read" /\ ret' = "batch" /\ sigAtEntry' = sigArrived
     ELSE pc' = "stop" /\ UNCHANGED << ret, sigAtEntry >>
  /\ UNCHANGED << inputVars, i, pairs, logVars, sessionVars, calls, src, svgResult,
                  modTimes, seen, files, out, chanVars, exitStatus >>


\* ----------------------------------------------------------------- render
\* A variant of the range loop that goes through pairs from the last to the
\* first; C6 must fail with it.
ReverseIndex(k) == Len(pairs) + 1 - k

\* The index in pairs of the pair the k-th iteration of a range loop over
\* pairs is about.
PairIndex(k) == k

\* The source name of the pair the current loop iteration is about.
CurName == pairs[PairIndex(i)].mmdName

\* The output name of the pair the current loop iteration is about.
CurOut == pairs[PairIndex(i)].svgName

\* A variant of render's read that reads the first pair's source whatever
\* the pair; C14 must fail with it.
RenderReadFirst ==
  /\ pc = "read"
  /\ \E ok \in BOOLEAN :
       IF ok
       THEN /\ src' = files[pairs[1].mmdName].doc
            /\ pc' = "call"
            /\ UNCHANGED << logVars, exitStatus >>
       ELSE Fatalf(FmtRead) /\ UNCHANGED src
  /\ UNCHANGED << inputVars, i, ret, pairs, sessionVars, calls, svgResult, sigAtEntry,
                  modTimes, seen, files, out, chanVars >>

\* render's os.ReadFile.
RenderRead ==
  /\ pc = "read"
  /\ \E ok \in BOOLEAN :
       IF ok
       THEN /\ src' = files[CurName].doc
            /\ pc' = "call"
            /\ UNCHANGED << logVars, exitStatus >>
       ELSE Fatalf(FmtRead) /\ UNCHANGED src
  /\ UNCHANGED << inputVars, i, ret, pairs, sessionVars, calls, svgResult, sigAtEntry,
                  modTimes, seen, files, out, chanVars >>

\* A variant of the encoding of one character that writes every character
\* as it is; C21 must fail with it.
AppendCharRaw(c) == << c >>

\* What encoding/json writes for one character of a string, with HTML
\* escaping on as json.NewEncoder has it: the quote and the backslash after
\* a backslash, the newline as \n, other control characters and <, > and &
\* as \u00XX, a byte that is not valid UTF-8 as \ufffd, U+2028 and U+2029 as
\* \u202X, and any other character as it is.
AppendChar(c) ==
  CASE c = "\"" -> <<"\\", "\"">>
    [] c = "\\" -> <<"\\", "\\">>
    [] c = "\n" -> <<"\\", "n">>
    [] c = "SOH" -> <<"\\", "u", "0", "0", "0", "1">>
    [] c = "<" -> <<"\\", "u", "0", "0", "3", "c">>
    [] c = "xFF" -> <<"\\", "u", "f", "f", "f", "d">>
    [] c = "U+2028" -> <<"\\", "u", "2", "0", "2", "8">>
    [] OTHER -> << c >>

\* The JSON string literal encoding/json writes for a string.
JsonString(s) ==
  LET body[n \in 0..Len(s)] ==
        IF n = 0 THEN << >> ELSE body[n - 1] \o AppendChar(s[n])
  IN  <<"\"">> \o body[Len(s)] \o <<"\"">>

\* json.Encoder.Encode of a string: the literal followed by a newline.
Encode(s) == JsonString(s) \o <<"\n">>

\* jsonEncodeJS for a string (the encoding of a string cannot fail).
JsonEncodeJS(pre, encodable, post) == pre \o Encode(encodable) \o post

\* The text Render puts before and after the encoded source.
RenderPre == <<"r", "e", "n", "d", "e", "r", "S", "V", "G", "(">>
RenderPost == <<")">>

\* The record kept of one Render call: the pair it is for, the state of the
\* session it is made on, whether a signal had been delivered before the
\* render(pair) that makes it was entered, and the expression sent.
CallRecord ==
  [pair |-> PairIndex(i), session |-> renderer, afterSig |-> sigAtEntry,
   js |-> JsonEncodeJS(RenderPre, src, RenderPost)]

\* svgRenderer.Render up to chromedp.Run: the call is sent to the engine.
RenderCall ==
  /\ pc = "call"
  /\ calls' = Append(calls, CallRecord)
  /\ inFlight' = inFlight + 1
  /\ pc' = "inflight"
  /\ UNCHANGED << inputVars, i, ret, pairs, logVars, renderer, sessions,
                  stopCalls, localVars, modTimes, seen, files, out, chanVars,
                  exitStatus >>

\* chromedp.Run returns: the awaited result, or an error.
RenderReturn ==
  /\ pc = "inflight"
  /\ \E ok \in BOOLEAN :
       IF ok
       THEN /\ svgResult' = RenderSVG(src)
            /\ pc' = "write"
            /\ UNCHANGED << logVars, exitStatus >>
       ELSE Fatalf(FmtRender) /\ UNCHANGED svgResult
  /\ inFlight' = inFlight - 1
  /\ UNCHANGED << inputVars, i, ret, pairs, renderer, sessions, stopCalls,
                  calls, src, sigAtEntry, modTimes, seen, files, out, chanVars >>

\* A variant of render's end that does not look at os.WriteFile's error;
\* C12 must fail with it.
RenderWriteUnchecked ==
  /\ pc = "write"
  /\ \E ok \in BOOLEAN :
       /\ out' = IF ok THEN [out EXCEPT ![CurOut] = svgResult] ELSE out
       /\ stderr' = Println(<<"rendered", " ">> \o CurOut)
       /\ pc' = CASE ret = "batch" -> "batch"
                  [] ret = "init" -> "istat"
                  [] ret = "tick" -> "tick"
       /\ i' = IF ret = "init" THEN i ELSE i + 1
       /\ src' = NoData
       /\ svgResult' = NoData
       /\ sigAtEntry' = FALSE
       /\ UNCHANGED << logOut, logFlags, exitStatus >>
  /\ UNCHANGED << inputVars, ret, pairs, sessionVars, calls,
                  modTimes, seen, files, chanVars >>

\* render's os.WriteFile and log line, and the return to the calling loop
\* (render's locals go out of scope). A WriteFile that fails has left the
\* file as it was (it could not be opened) or truncated.
RenderWrite ==
  /\ pc = "write"
  /\ \E ok \in BOOLEAN :
       IF ok
       THEN /\ out' = [out EXCEPT ![CurOut] = svgResult]
            /\ stderr' = Println(<<"rendered", " ">> \o CurOut)
            /\ pc' = CASE ret = "batch" -> "batch"
                       [] ret = "init" -> "istat"
                       [] ret = "tick" -> "tick"
            /\ i' = IF ret = "init" THEN i ELSE i + 1
            /\ src' = NoData
            /\ svgResult' = NoData
            /\ sigAtEntry' = FALSE
            /\ UNCHANGED << logOut, logFlags, exitStatus >>
       ELSE /\ Fatalf(FmtWrite)
            /\ \E opened \in BOOLEAN :
                 out' = IF opened THEN [out EXCEPT ![CurOut] = Partial] ELSE out
            /\ UNCHANGED << i, src, svgResult, sigAtEntry >>
  /\ UNCHANGED << inputVars, ret, pairs, sessionVars, calls,
                  modTimes, seen, files, chanVars >>

\* ---------------------------------------------------------- watchAndRender
\* A variant of the map assignment that makes a new map with the one key;
\* C11 must fail with it.
MapPutAlone(m, name, t) == [n \in {name} |-> t]

\* The map m with m[name] = t.
MapPut(m, name, t) ==
  [n \in (DOMAIN m) \cup {name} |-> IF n = name THEN t ELSE m[n]]

\* One iteration of the initial loop over pairs (a call of render), or its end.
InitNext ==
  /\ pc = "winit"
  /\ IF i <= Len(pairs)
     THEN pc' = "read" /\ ret' = "init" /\ sigAtEntry' = sigArrived
     ELSE pc' = "notify" /\ UNCHANGED << ret, sigAtEntry >>
  /\ UNCHANGED << inputVars, i, pairs, logVars, sessionVars, calls, src, svgResult,
                  modTimes, seen, files, out, chanVars, exitStatus >>

\* A variant of the initial loop's stat that logs a failure and goes on to
\* the next pair; C19 must fail with it.
InitStatGoesOn ==
  /\ pc = "istat"
  /\ \E ok \in BOOLEAN :
       /\ IF ok
          THEN /\ modTimes' = MapPut(modTimes, CurName, files[CurName].mtime)
               /\ seen' = MapPut(seen, CurName, files[CurName].mtime)
               /\ UNCHANGED logVars
          ELSE /\ EnableLogging
               /\ stderr' = LogOutput(logOut', logFlags', FatalFormat(FmtStat))
               /\ modTimes' = MapPut(modTimes, CurName, 0)
               /\ seen' = MapPut(seen, CurName, 0)
       /\ i' = i + 1
       /\ pc' = "winit"
       /\ UNCHANGED exitStatus
  /\ UNCHANGED << inputVars, ret, pairs, sessionVars, calls, localVars,
                  files, out, chanVars >>

\* The initial loop's modTimes[pair.mmdName] = modTime(pair.mmdName).
InitStat ==
  /\ pc = "istat"
  /\ \E ok \in BOOLEAN :
       IF ok
       THEN /\ modTimes' = MapPut(modTimes, CurName, files[CurName].mtime)
            /\ seen' = MapPut(seen, CurName, files[CurName].mtime)
            /\ i' = i + 1
            /\ pc' = "winit"
            /\ UNCHANGED << logVars, exitStatus >>
       ELSE Fatalf(FmtStat) /\ UNCHANGED << modTimes, seen, i >>
  /\ UNCHANGED << inputVars, ret, pairs, sessionVars, calls, localVars,
                  files, out, chanVars >>

\* signal.Notify on the unbuffered channel, time.NewTicker, "watching...".
StartWatching ==
  /\ pc = "notify"
  /\ notify' = TRUE
  /\ tickerOn' = TRUE
  /\ stderr' = Println(<<"watching...">>)
  /\ pc' = "select"
  /\ UNCHANGED << inputVars, i, ret, pairs, logOut, logFlags, sessionVars,
                  calls, localVars, modTimes, seen, files, out, tickPending,
                  sigArrived, exitStatus >>

\* The main goroutine reaches the select: a buffered tick is taken at once
\* (the stop channel has no buffer, so no signal can be waiting in it);
\* otherwise the goroutine parks until a tick or a signal is sent.
Select ==
  /\ pc = "select"
  /\ IF tickPending
     THEN /\ tickPending' = FALSE
          /\ pc' = "tick"
          /\ i' = 1
          /\ calls' = << >>
     ELSE /\ pc' = "parked"
          /\ UNCHANGED << tickPending, i, calls >>
  /\ UNCHANGED << inputVars, ret, pairs, logVars, sessionVars, localVars,
                  modTimes, seen, files, out, notify, tickerOn, sigArrived,
                  exitStatus >>

\* A variant of the tick loop's test with the two times exchanged; C5 must
\* fail with it.
ModifiedReversed(t, name) == After(modTimes[name], t)

\* A variant of the tick loop's test that also holds of a time equal to the
\* entry; C22 must fail with it.
ModifiedOrEqual(t, name) == ~After(modTimes[name], t)

\* The test the tick loop makes of the stat'ed time t of one source.
Modified(t, name) == After(t, modTimes[name])

\* One iteration of the tick's loop over pairs: stat, compare, and for a
\* modified source set modTimes and call render; or the loop's end.
TickNext ==
  /\ pc = "tick"
  /\ IF i <= Len(pairs)
     THEN \E ok \in BOOLEAN :
            IF ok
            THEN LET t == files[CurName].mtime IN
                 /\ seen' = MapPut(seen, CurName, t)
                 /\ IF Modified(t, CurName)
                    THEN /\ modTimes' = MapPut(modTimes, CurName, t)
                         /\ pc' = "read"
                         /\ ret' = "tick"
                         /\ sigAtEntry' = sigArrived
                         /\ UNCHANGED << i, calls, logVars, exitStatus >>
                    ELSE /\ i' = i + 1
                         /\ UNCHANGED << pc, ret, modTimes, calls, sigAtEntry,
                                         logVars, exitStatus >>
            ELSE Fatalf(FmtStat)
                 /\ UNCHANGED << i, ret, modTimes, seen, calls, sigAtEntry >>
     ELSE /\ pc' = "select"
          /\ calls' = << >>
          /\ UNCHANGED << i, ret, modTimes, seen, sigAtEntry, logVars, exitStatus >>
  /\ UNCHANGED << inputVars, pairs, sessionVars, src, svgResult, files, out,
                  chanVars >>

\* The stop case: the newline on os.Stdout, break Loop, "done", return.
BreakLoop ==
  /\ pc = "stopcase"
  /\ stderr' = Println(<<"done">>)
  /\ pc' = "stop"
  /\ UNCHANGED << inputVars, i, ret, pairs, logOut, logFlags, sessionVars,
                  calls, localVars, modTimes, seen, files, out, chanVars, exitStatus >>

\* renderer.Stop() and main's return.
Stop ==
  /\ pc = "stop"
  /\ stopCalls' = stopCalls + 1
  /\ renderer' = "stopped"
  /\ pc' = "exited"
  /\ exitStatus' = 0
  /\ UNCHANGED << inputVars, i, ret, pairs, logVars, sessions, inFlight,
                  calls, localVars, modTimes, seen, files, out, chanVars >>

\* ------------------------------------------------------------ environment
\* A variant of the ticker's firing in which the tick's loop over the pairs
\* starts at once also while a Render call is in flight (a tick handled in
\* a goroutine of its own); C20 must fail with it.
TickAlongsideRender ==
  /\ tickerOn
  /\ pc # "exited"
  /\ IF pc \in {"parked", "inflight"}
     THEN /\ pc' = "tick"
          /\ i' = 1
          /\ calls' = << >>
          /\ UNCHANGED tickPending
     ELSE /\ ~tickPending
          /\ tickPending' = TRUE
          /\ UNCHANGED << pc, i, calls >>
  /\ UNCHANGED << inputVars, ret, pairs, logVars, sessionVars, localVars,
                  modTimes, seen, files, out, notify, tickerOn, sigArrived,
                  exitStatus >>

\* The ticker fires: a parked main goroutine receives the tick at once;
\* otherwise the tick is buffered, or dropped when one is buffered already.
Tick ==
  /\ tickerOn
  /\ pc # "exited"
  /\ IF pc = "parked"
     THEN /\ pc' = "tick"
          /\ i' = 1
          /\ calls' = << >>
          /\ UNCHANGED tickPending
     ELSE /\ ~tickPending
          /\ tickPending' = TRUE
          /\ UNCHANGED << pc, i, calls >>
  /\ UNCHANGED << inputVars, ret, pairs, logVars, sessionVars, localVars,
                  modTimes, seen, files, out, notify, tickerOn, sigArrived,
                  exitStatus >>

\* What a SIGINT (2) or SIGTERM (15) does to the main goroutine. Before
\* signal.Notify the Go runtime ends the process; after it the os/signal
\* package sends on the channel without blocking, so the signal reaches the
\* main goroutine only if that is parked in the select, and is dropped
\* otherwise.
Deliver(sig) ==
  IF ~notify
  THEN pc' = "exited" /\ exitStatus' = 128 + sig
  ELSE IF pc = "parked"
       THEN pc' = "stopcase" /\ UNCHANGED exitStatus
       ELSE UNCHANGED << pc, exitStatus >>

\* A signal is delivered to the process.
Signal ==
  /\ pc # "exited"
  /\ sigArrived' = TRUE
  /\ \E sig \in {2, 15} : Deliver(sig)
  /\ UNCHANGED << inputVars, i, ret, pairs, logVars, sessionVars, calls,
                  localVars, modTimes, seen, files, out, notify, tickerOn,
                  tickPending >>

\* Another program sets the modification time of a source file given on the
\* command line (the time may also move backward) and leaves its content.
Touch ==
  /\ pc # "exited"
  /\ \E k \in 1..Len(args), t \in Times :
       /\ files[args[k]].mtime # t
       /\ files' = [files EXCEPT ![args[k]].mtime = t]
  /\ UNCHANGED << inputVars, pc, i, ret, pairs, logVars, sessionVars, calls,
                  localVars, modTimes, seen, out, chanVars, exitStatus >>

\* Another program writes a source file given on the command line: a new
\* content, and any modification time.
Write ==
  /\ pc # "exited"
  /\ \E k \in 1..Len(args), t \in Times, d \in Docs :
       /\ files[args[k]].doc # d
       /\ files' = [files EXCEPT ![args[k]] = [mtime |-> t, doc |-> d]]
  /\ UNCHANGED << inputVars, pc, i, ret, pairs, logVars, sessionVars, calls,
                  localVars, modTimes, seen, out, chanVars, exitStatus >>

\* Another program saves a source file given on the command line: a new
\* content and a later modification time.
Save ==
  /\ pc # "exited"
  /\ \E k \in 1..Len(args), t \in Times, d \in Docs :
       /\ files[args[k]].doc # d
       /\ t > files[args[k]].mtime
       /\ files' = [files EXCEPT ![args[k]] = [mtime |-> t, doc |-> d]]
  /\ UNCHANGED << inputVars, pc, i, ret, pairs, logVars, sessionVars, calls,
                  localVars, modTimes, seen, out, chanVars, exitStatus >>

\* Another program edits a source file given on the command line: it appends
\* a character to the content, so that every version of the file differs from
\* the ones before it, and the modification time becomes a later one.
Edit ==
  /\ pc # "exited"
  /\ \E k \in 1..Len(args), t \in 1..MaxEdits :
       /\ t > files[args[k]].mtime
       /\ files' = [files EXCEPT ![args[k]] =
                      [mtime |-> t, doc |-> files[args[k]].doc \o <<"a">>]]
  /\ UNCHANGED << inputVars, pc, i, ret, pairs, logVars, sessionVars, calls,
                  localVars, modTimes, seen, out, chanVars, exitStatus >>

\* --------------------------------------------------------- specification
\* The steps of the main goroutine.
Program ==
  \/ ParseArgs
  \/ ConfigureLogging
  \/ ValidateArg
  \/ NewRenderer
  \/ LaunchBrowser
  \/ LoadMermaid
  \/ InitializeMermaid
  \/ InjectExtras
  \/ Dispatch
  \/ BatchNext
  \/ RenderRead
  \/ RenderCall
  \/ RenderReturn
  \/ RenderWrite
  \/ InitNext
  \/ InitStat
  \/ StartWatching
  \/ Select
  \/ TickNext
  \/ BreakLoop
  \/ Stop

Next ==
  \/ Program
  \/ Tick
  \/ Signal
  \/ Touch

\* The program, its ticker and signals, and sources whose modification times
\* change while their contents stay.
Spec == Init /\ [][Next]_vars

\* The same with sources whose contents change too.
NextDocs == Next \/ Write

SpecDocs == Init /\ [][NextDocs]_vars

\* The program, its ticker and signals, and sources that are saved with new
\* contents and later modification times.
NextSaves ==
  \/ Program
  \/ Tick
  \/ Signal
  \/ Save

SpecSaves == Init /\ [][NextSaves]_vars

\* The same where the main goroutine goes on running whenever it can take a
\* step, and the ticker goes on firing (every 250ms) until the process ends.
FairSpecSaves == SpecSaves /\ WF_vars(Program) /\ WF_vars(Tick)

\* The program, its ticker and signals, run on one source of any text, which
\* stays as it is.
NextTexts ==
  \/ Program
  \/ Tick
  \/ Signal

SpecTexts == InitTexts /\ [][NextTexts]_vars

\* The program, its ticker and signals, and edits of the source files.
NextEdits ==
  \/ Program
  \/ Tick
  \/ Signal
  \/ Edit

\* The start of main for a command line of at most as many names as there
\* are documents (each document once, or one of them twice).
InitEdits ==
  InitFrom({ l \in ArgLists : Len(l) <= Len(DocNames) }, {NoData}, {Graph})

SpecEdits == InitEdits /\ [][NextEdits]_vars

\* The program run with command lines that may have -outdir=DIR.
SpecFlags == InitFlags /\ [][Next]_vars


\* ------------------------------------------------------ the claims' terms
\* The main goroutine is inside render(pair).
InRender == pc \in {"read", "call", "inflight", "write"}

\* The process has ended through fatalf.
FatalExit == pc = "exited" /\ exitStatus = 1

\* The process has ended through usage.
UsageExit == pc = "exited" /\ exitStatus = 2

\* Some argument lacks the document extension.
BadArgs == \E k \in 1..Len(args) : ~HasSuffix(args[k], mmd)

\* How many Render calls of the current pass are for pair k.
CallsFor(k) == Cardinality({ n \in 1..Len(calls) : calls[n].pair = k })

\* A write to the error stream that is one newline-terminated line marked as
\* an error.
IsErrorLine(e) ==
  /\ HasPrefix(e.msg, <<"error: ">>)
  /\ HasSuffix(e.msg, <<"\n">>)
  /\ Cardinality({ n \in 1..Len(e.msg) : e.msg[n] = "\n" }) = 1

\* ------------------------------------------------------------------- C1
\* C1 (as claimed): a run whose session was started and which ends with a
\* fatal error has invoked the session's Stop exactly once before the process
\* ends.
C1_StopOnceOnFatalExit ==
  (FatalExit /\ renderer # "none" /\ renderer # "starting") => stopCalls = 1

\* ------------------------------------------------------------------- C2
\* C2: at most one session is created per run; every Render call is issued on
\* that one session after NewRenderer has completed all its steps and before
\* Stop (render is entered, and a call recorded, only while the session is
\* ready), and once Stop has been invoked the process has ended.
C2_RenderOnlyOnReadySession ==
  /\ sessions <= 1
  /\ \A k \in 1..Len(calls) : calls[k].session = "ready"
  /\ InRender => (renderer = "ready" /\ sessions = 1)
  /\ renderer = "stopped" => (pc = "exited" /\ stopCalls = 1)
  /\ stopCalls > 0 => renderer = "stopped"

\* C2's case: a second Render call of the run is in flight on the session.
C2_Witness ==
  /\ pc = "inflight"
  /\ Len(calls) = 2
  /\ calls[2].session = "ready"

\* ------------------------------------------------------------------- C3
\* The k-th Render call of the pass so far is for the k-th input.
CallsInInputOrder ==
  /\ Len(calls) <= Len(args)
  /\ \A k \in 1..Len(calls) : pairs[calls[k].pair].mmdName = args[k]

\* C3: during the batch pass and the initial pass of watch mode the k-th
\* Render call is for the k-th input of the command line, and when the pass
\* has ended without a failure there has been exactly one call per input.
C3_OncePerPairInOrder ==
  /\ (pc \in {"batch", "winit", "istat", "notify"} \/ (InRender /\ ret # "tick"))
       => CallsInInputOrder
  /\ ((pc = "stop" /\ ~watchFlag) \/ pc = "notify")
       => (CallsInInputOrder /\ Len(calls) = Len(args))

\* C3's case: a batch pass over two different documents has ended.
C3_Witness ==
  /\ ~watchFlag
  /\ pc = "stop"
  /\ Len(args) = 2
  /\ args[1] # args[2]
  /\ Len(calls) = 2

\* ------------------------------------------------------------------- C4
\* C4: a step of the tick loop taken at a pair whose source's modification
\* time is not later than its modTimes entry (equal, or moved backward)
\* issues no Render call, starts no render, and leaves modTimes and the
\* output files as they are.
C4_SkipUnmodified ==
  [][ (pc = "tick" /\ i <= Len(pairs)
         /\ files[CurName].mtime <= modTimes[CurName])
      => (/\ calls' = calls
          /\ modTimes' = modTimes
          /\ out' = out
          /\ pc' \in {"tick", "exited"}) ]_vars

\* C4's case: in a tick the first pair's source was stat'ed at a time earlier
\* than its entry, and the loop has gone on to the second pair with no call.
C4_Witness ==
  /\ pc = "tick"
  /\ i = 2
  /\ calls = << >>
  /\ seen[pairs[1].mmdName] < modTimes[pairs[1].mmdName]


\* ------------------------------------------------------------------- C5
\* The main goroutine takes a step of the tick loop at a pair.
TickLoopStep == pc = "tick" /\ i <= Len(pairs) /\ (pc' # pc \/ i' # i)

\* C5 (as claimed): when the time stat'ed for a source at a tick is strictly
\* later than the time stat'ed for it before (at the tick before, or in the
\* initial pass), the tick renders that source and sets its modTimes entry to
\* the new time.
C5_RenderWhenAdvancedSinceLastTick ==
  [][ (TickLoopStep /\ seen'[CurName] > seen[CurName])
      => (pc' = "read" /\ modTimes'[CurName] = seen'[CurName]) ]_vars

\* C5 (amended), the step: when the stat of a pair's source succeeds with a
\* time strictly later than its modTimes entry, the entry is set to that time
\* and render is entered for that pair.
RenderWhenLaterThanEntry ==
  (TickLoopStep /\ pc' # "exited" /\ files[CurName].mtime > modTimes[CurName])
    => (/\ pc' = "read"
        /\ ret' = "tick"
        /\ i' = i
        /\ modTimes'[CurName] = files[CurName].mtime)

\* C5 (amended), the render: while a tick renders a pair the entry is the
\* stat'ed time, and the pair has exactly one Render call in the tick once
\* the call is issued, and none before.
OneCallPerModifiedPair ==
  /\ (InRender /\ ret = "tick")
       => (/\ modTimes[CurName] = seen[CurName]
           /\ CallsFor(PairIndex(i)) = IF pc \in {"inflight", "write"} THEN 1 ELSE 0)
  /\ pc = "tick"
       => \A k \in 1..Len(pairs) : CallsFor(k) <= 1

\* C5 (amended): at a tick, a pair whose source's stat'ed time is strictly
\* later than its modTimes entry gets its entry set to that time and exactly
\* one render in that tick (one Render call, unless the read fails).
C5_RenderWhenLaterThanEntry ==
  /\ []OneCallPerModifiedPair
  /\ [][RenderWhenLaterThanEntry]_vars

\* C5's case: a tick has issued the Render call for a source whose time
\* advanced, and the entry is the new time.
C5_Witness ==
  /\ pc = "inflight"
  /\ ret = "tick"
  /\ CallsFor(PairIndex(i)) = 1
  /\ modTimes[CurName] = seen[CurName]
  /\ modTimes[CurName] > 0

\* ------------------------------------------------------------------- C6
\* C6: the Render calls of one pass, and so of one tick, are for pairs in
\* strictly increasing command-line position.
C6_TickCallsInListOrder ==
  \A p, q \in 1..Len(calls) : p < q => calls[p].pair < calls[q].pair

\* C6's case: one tick has re-rendered two different documents, every pair of
\* the list.
C6_Witness ==
  /\ ret = "tick"
  /\ pc = "write"
  /\ Len(pairs) >= 2
  /\ Len(calls) = Len(pairs)
  /\ pairs[calls[1].pair].mmdName # pairs[calls[2].pair].mmdName

\* ------------------------------------------------------------------- C7
\* C7: with an argument that lacks the extension, at any position, no
\* session is started, render is never entered and no Render call is made;
\* the process ends through fatalf with the input error as its last line
\* (or earlier, by a signal).
C7_BadArgNoRender ==
  BadArgs =>
    /\ calls = << >>
    /\ ~InRender
    /\ renderer = "none"
    /\ out = [n \in DOMAIN out |-> NoData]
    /\ pc = "exited" =>
         \/ exitStatus \in {130, 143}
         \/ /\ exitStatus = 1
            /\ stderr # << >>
            /\ stderr[Len(stderr)].msg = FatalFormat(FmtBadInput)

\* C7's case: the second argument lacks the extension, the first does not,
\* and the process has ended with the fatal error.
C7_Witness ==
  /\ Len(args) = 2
  /\ HasSuffix(args[1], mmd)
  /\ ~HasSuffix(args[2], mmd)
  /\ FatalExit
  /\ calls = << >>

\* ------------------------------------------------------------------- C8
\* C8 (as claimed): no Render call is issued by a render(pair) that was
\* entered after a signal had been delivered to the process.
C8_NoRenderAfterSignal ==
  \A k \in 1..Len(calls) : ~calls[k].afterSig

\* ------------------------------------------------------------------- C9
\* C9 (as claimed): a watch-mode run that has begun to render, that a signal
\* was delivered to, and that ends without a fatal error, ends with the
\* session stopped and status 0.
C9_SignalEndsCleanly ==
  (watchFlag /\ sigArrived /\ pc = "exited" /\ exitStatus # 1 /\ calls # << >>)
    => (exitStatus = 0 /\ stopCalls = 1 /\ renderer = "stopped")

\* ------------------------------------------------------------------ C10
\* C10 (as claimed): every fatal end of the process, through fatalf or
\* through usage, leaves as the last write to the error stream one
\* newline-terminated line marked as an error, and it is the only line so
\* marked.
C10_EveryFatalIsOneErrorLine ==
  (FatalExit \/ UsageExit) =>
    /\ stderr # << >>
    /\ IsErrorLine(stderr[Len(stderr)])
    /\ \A k \in 1..(Len(stderr) - 1) : ~HasPrefix(stderr[k].msg, <<"error: ">>)

\* C10 (amended): every end through fatalf (status 1), with or without -l,
\* leaves as the last write to the error stream one newline-terminated line
\* marked as an error, the only line so marked; the end through usage
\* (status 2) happens for missing arguments only and writes the usage line
\* and the flag defaults instead, neither marked as an error.
C10_FatalfIsOneErrorLine ==
  /\ FatalExit =>
       /\ stderr # << >>
       /\ IsErrorLine(stderr[Len(stderr)])
       /\ \A k \in 1..(Len(stderr) - 1) : ~HasPrefix(stderr[k].msg, <<"error: ">>)
  /\ UsageExit =>
       /\ Len(args) = 0
       /\ stderr = << [hdr |-> 0, msg |-> UsageLine], [hdr |-> 0, msg |-> FlagDefaults] >>
  /\ pc = "exited" => exitStatus \in {0, 1, 2, 130, 143}

\* C10's case: without -l a Render call has failed, and the error line is the
\* only write to the error stream.
C10_Witness ==
  /\ ~logFlag
  /\ FatalExit
  /\ Len(calls) = 1
  /\ stderr = << [hdr |-> 3, msg |-> <<"error: ", "couldn't render: %v", "\n">>] >>

\* ------------------------------------------------------------------ C11
\* The initial pass of watch mode has completed.
InitialPassDone == pc = "notify" \/ notify

\* The source paths of the pairs.
Keys == { pairs[k].mmdName : k \in 1..Len(pairs) }

\* Once the initial pass has completed, modTimes has an entry for every
\* source path.
EveryKeyHasEntry == InitialPassDone => DOMAIN modTimes = Keys

\* In this step every entry of modTimes stays, with a time not earlier.
EntriesNeverDecrease ==
  \A n \in DOMAIN modTimes :
    n \in DOMAIN modTimes' /\ modTimes'[n] >= modTimes[n]

\* C11 (as claimed): once the initial pass has completed modTimes has an
\* entry for every source path, and in no step of a run does the time stored
\* for a path decrease.
C11_EntriesCompleteAndMonotone ==
  /\ []EveryKeyHasEntry
  /\ [][EntriesNeverDecrease]_vars

\* C11 (amended): once the initial pass has completed modTimes has an entry
\* for every source path; the time stored for a path never decreases except
\* in the initial pass's own assignment, which overwrites the entry of the
\* path it has just rendered (an entry that exists only for a path given
\* more than once) and leaves every other entry as it is.
C11_MonotoneAfterInitialPass ==
  /\ []EveryKeyHasEntry
  /\ [][ /\ pc # "istat" => EntriesNeverDecrease
         /\ pc = "istat" =>
              \A n \in DOMAIN modTimes \ {CurName} :
                n \in DOMAIN modTimes' /\ modTimes'[n] = modTimes[n] ]_vars

\* C11's case: the watch loop runs over two pairs, every source has its
\* entry, and a source was stat'ed at a time earlier than its entry, which
\* stayed.
C11_Witness ==
  /\ notify
  /\ pc = "tick"
  /\ Len(pairs) = 2
  /\ DOMAIN modTimes = Keys
  /\ \E n \in Keys : seen[n] < modTimes[n]


\* ------------------------------------------------------------------ C12
\* C12 (as claimed): while a tick's render of a path has not completed, the
\* path's modTimes entry is not yet the time the tick stat'ed for it.
C12_NoEntryAheadOfRender ==
  (InRender /\ ret = "tick") => modTimes[CurName] # seen[CurName]

\* The entry of n is set or changed in this step.
EntrySet(n) == n \notin DOMAIN modTimes \/ modTimes'[n] # modTimes[n]

\* C12 (amended): modTimes is changed by the watch loop only, one entry at a
\* time and to the time stat'ed: in the initial pass after the render of that
\* path has written its output, and at a tick in the step that enters the
\* render of that path. A render entered by a tick either ends the process
\* or returns to the tick loop with the output written, so an entry is ahead
\* of its render only while that render is in progress.
C12_EntrySetAroundRender ==
  /\ [](pc = "istat" => (ret = "init" /\ out[CurOut] # NoData))
  /\ [][ \A n \in DOMAIN modTimes' :
           EntrySet(n) =>
             /\ n = CurName
             /\ modTimes'[n] = files[n].mtime
             /\ \/ pc = "istat"
                \/ pc = "tick" /\ pc' = "read" /\ ret' = "tick" /\ i' = i ]_vars
  /\ [][ (InRender /\ ret = "tick") =>
           \/ InRender' /\ i' = i /\ ret' = ret /\ modTimes' = modTimes
           \/ pc' = "exited"
           \/ /\ pc = "write"
              /\ pc' = "tick"
              /\ i' = i + 1
              /\ svgResult # NoData
              /\ out'[CurOut] = svgResult ]_vars

\* C12's case: a tick is inside the render of a path whose entry it has set
\* to the new time, and the output has not been written yet.
C12_Witness ==
  /\ pc = "inflight"
  /\ ret = "tick"
  /\ modTimes[CurName] = files[CurName].mtime
  /\ modTimes[CurName] = 1
  /\ Len(calls) = 1


\* ------------------------------------------------------------------ C13
\* The part of a path after its last "/".
Base(name) ==
  LET slashes == { k \in 1..Len(name) : name[k] = "/" }
  IN  IF slashes = {} THEN name
      ELSE SubSeq(name, (CHOOSE k \in slashes : \A j \in slashes : j <= k) + 1, Len(name))

\* The output path C13 gives for an input that ends in .mmd.
OutPath(name) ==
  IF outdirArg = NoData
  THEN SubSeq(name, 1, Len(name) - Len(mmd)) \o svg
  ELSE outdirArg \o <<"/">> \o SubSeq(Base(name), 1, Len(Base(name)) - Len(mmd)) \o svg

\* C13 (as claimed): a run on inputs that all end in .mmd, with or without
\* -outdir=DIR, that has ended (other than by a signal) has computed for each
\* input the output path dir/name.svg, or DIR/name.svg with -outdir=DIR.
C13_OutputPath ==
  (pc = "exited" /\ exitStatus \notin {130, 143} /\ Len(args) > 0 /\ ~BadArgs)
    => /\ Len(pairs) = Len(args)
       /\ \A k \in 1..Len(args) : pairs[k].svgName = OutPath(args[k])

\* The same for the runs without -outdir only.
OutputPathBesideSource == outdirArg = NoData => C13_OutputPath


StartStepFails == pc \in StartSteps /\ pc' = "exited" /\ exitStatus' = 1

\* The last line written to the error stream.
LastLine == stderr[Len(stderr)].msg

\* C15 (as claimed): when one of the four steps of NewRenderer fails the
\* process ends with no Render call made, and the error line written is one
\* that the failure of no other step writes.
C15_DistinctErrorPerStep ==
  [][ StartStepFails =>
        /\ calls' = << >>
        /\ \A t \in StartSteps \ {pc} :
             LastLine' # FatalFormat(RunFormat(RunOf(t))) ]_vars

\* C15 (amended): while the session is being started no render is entered
\* and no output written; when a step of NewRenderer fails the process ends
\* at once (status 1) with no Render call made and the session never ready,
\* and the error line written is that of the chromedp.Run call the step
\* belongs to: one line for the launch and for the load of the library, which
\* are one call, another for the configuration, another for the helper.
C15_StartFailureIsFatalAndNamed ==
  /\ [](renderer = "starting" =>
         (calls = << >> /\ ~InRender /\ out = [n \in DOMAIN out |-> NoData]))
  /\ [][ StartStepFails =>
           /\ renderer' = "starting"
           /\ calls' = << >>
           /\ LastLine' = FatalFormat(RunFormat(RunOf(pc)))
           /\ \A t \in StartSteps :
                (LastLine' = FatalFormat(RunFormat(RunOf(t)))) <=> (RunOf(t) = RunOf(pc)) ]_vars

\* C15's case: with -l, the configuration of the library has failed; the
\* error stream has the start line and the error line.
C15_Witness ==
  /\ logFlag
  /\ FatalExit
  /\ renderer = "starting"
  /\ Len(stderr) = 2
  /\ LastLine = <<"error: ", "initialize mermaid: %w", "\n">>


\* ------------------------------------------------------------------ C16
\* The lines on the error stream, in order.
Lines == [k \in 1..Len(stderr) |-> stderr[k].msg]

\* The log line of the render of pair k.
RenderedLine(k) == <<"rendered", " ">> \o pairs[k].svgName \o <<"\n">>

\* The line C16 and the README give for the teardown of the engine.
StoppedLine == <<"stopped headless browser", "\n">>

\* With -l, the lines of a run that has ended by returning from main are:
\* the start of the engine; one line per pair, in order, for the batch or the
\* initial pass; in watch mode "watching...", then one line per re-render,
\* then "done"; and at the end the lines of tail.
LogOrder(tail) ==
  (logFlag /\ pc = "exited" /\ exitStatus = 0) =>
    LET n == Len(Lines) - Len(tail) IN
    /\ n >= 1 + Len(pairs)
    /\ SubSeq(Lines, n + 1, Len(Lines)) = tail
    /\ Lines[1] = <<"starting headless browser", "\n">>
    /\ \A k \in 1..Len(pairs) : Lines[1 + k] = RenderedLine(k)
    /\ IF watchFlag
       THEN /\ n >= Len(pairs) + 3
            /\ Lines[Len(pairs) + 2] = <<"watching...", "\n">>
            /\ Lines[n] = <<"done", "\n">>
            /\ \A j \in (Len(pairs) + 3)..(n - 1) :
                 \E k \in 1..Len(pairs) : Lines[j] = RenderedLine(k)
       ELSE n = 1 + Len(pairs)

\* C16 (as claimed): with logging enabled the events of a run are, in order,
\* the start of the engine once, a "rendered" line after each render, in
\* watch mode "watching..." after the initial pass and "done" on leaving the
\* loop, and the stop of the engine as the last line.
C16_LogEventOrder == LogOrder(<< StoppedLine >>)

\* The same order with "done" or the last "rendered" as the last line.
LogOrderWithoutStopped == LogOrder(<< >>)


\* ------------------------------------------------------------------ C17
\* The documents that can be given on the command line.
DocSet == { DocNames[m] : m \in 1..Len(DocNames) }

\* The output of source n is not the render of n's present content.
Stale(n) ==
  /\ n \in Keys
  /\ out[MakePair(n).svgName] # <<"svg", files[n].doc>>

\* C17 (as claimed): in watch mode, when after the initial pass the output
\* of a source is not the render of the source's content (the source was
\* saved, with a later modification time, after the initial pass read it),
\* then later the output is the render of the source's content, unless the
\* process ends or a signal arrives.
C17_SavedSourceIsRenderedAgain ==
  \A n \in DocSet :
    (watchFlag /\ InitialPassDone /\ Stale(n))
      ~> (~Stale(n) \/ pc = "exited" \/ sigArrived)


\* The same for a source whose modification time is later than its modTimes
\* entry, that is, for a save made after the stat that set the entry.
LaterThanEntryIsRenderedAgain ==
  \A n \in DocSet :
    (watchFlag /\ InitialPassDone /\ Stale(n) /\ files[n].mtime > modTimes[n])
      ~> (~Stale(n) \/ pc = "exited" \/ sigArrived)


\* ------------------------------------------------------------------ C18
\* The main goroutine's step is a failure inside render at the place at.
RenderFails(at) == pc = at /\ pc' = "exited" /\ exitStatus' = 1

\* The error stream has a line marked as an error.
ErrorReported == \E k \in 1..Len(stderr) : HasPrefix(stderr[k].msg, <<"error: ">>)

\* C18: a read that fails issues no Render call and leaves the output files
\* as they are, and so does a Render call that fails; the error ends the
\* process at once (an error line is only ever followed by the end), the
\* ended process takes no step, and the passes' calls so far are for the
\* failed pair and the pairs before it only.
C18_FailureWritesNothingAndEnds ==
  /\ [][ RenderFails("read") =>
           (calls' = calls /\ out' = out /\ LastLine' = FatalFormat(FmtRead)) ]_vars
  /\ [][ RenderFails("inflight") =>
           (calls' = calls /\ out' = out /\ LastLine' = FatalFormat(FmtRender)) ]_vars
  /\ [](ErrorReported => (pc = "exited" /\ exitStatus = 1))
  /\ [][pc # "exited"]_vars
  /\ []((FatalExit /\ renderer = "ready") =>
          /\ \A k \in 1..Len(calls) : calls[k].pair <= PairIndex(i)
          /\ LastLine = FatalFormat(FmtRead) => CallsFor(PairIndex(i)) = 0)

\* C18's case: in a run over two sources the Render call for the first has
\* failed: the process has ended with its output and the second's unwritten.
C18_Witness ==
  /\ FatalExit
  /\ LastLine = FatalFormat(FmtRender)
  /\ Len(pairs) = 2
  /\ pairs[1].mmdName # pairs[2].mmdName
  /\ i = 1
  /\ Len(calls) = 1
  /\ out = [n \in DOMAIN out |-> NoData]


\* ------------------------------------------------------------------ C19
\* The main goroutine's step is a stat that fails, in the initial pass or at
\* a tick.
StatFails == pc \in {"istat", "tick"} /\ pc' = "exited" /\ exitStatus' = 1

\* The error stream has the line of the stat error.
StatErrorReported ==
  \E k \in 1..Len(stderr) : stderr[k].msg = FatalFormat(FmtStat)

\* C19: a stat that fails, in the initial pass or at a tick, ends the process
\* with the stat error as its last line and status 1, with no Render call
\* issued, no entry of modTimes set and no output written by that step; once
\* the stat error is reported the process has ended outside render, and it
\* takes no further step: no render for a later pair, no further tick.
C19_StatFailureIsFatal ==
  /\ [][ StatFails =>
           /\ LastLine' = FatalFormat(FmtStat)
           /\ calls' = calls
           /\ modTimes' = modTimes
           /\ out' = out
           /\ i' = i ]_vars
  /\ [](StatErrorReported =>
         (pc = "exited" /\ exitStatus = 1 /\ src = NoData /\ svgResult = NoData))
  /\ [][~StatErrorReported]_vars

\* C19's case: at a tick over two sources the stat of the first has failed;
\* the process has ended with no Render call in that tick.
C19_Witness ==
  /\ StatErrorReported
  /\ notify
  /\ Len(pairs) = 2
  /\ pairs[1].mmdName # pairs[2].mmdName
  /\ i = 1
  /\ calls = << >>
  /\ pc = "exited"


\* ------------------------------------------------------------------ C20
\* C20: in batch and in watch mode, whatever ticks and signals arrive, the
\* engine has at most one Render call unanswered; a call is sent only when
\* none is unanswered, and a tick's loop over the pairs runs only then.
C20_OneRenderInFlight ==
  /\ [](inFlight \in {0, 1})
  /\ [](pc \in {"batch", "winit", "tick", "select", "parked", "read", "call"}
         => inFlight = 0)
  /\ [][inFlight' > inFlight => (inFlight = 0 /\ pc = "call")]_vars

\* C20's case: a tick's second Render call is unanswered, alone, while a
\* further tick waits in the ticker's channel and a signal has arrived.
C20_Witness ==
  /\ pc = "inflight"
  /\ ret = "tick"
  /\ Len(calls) = 2
  /\ inFlight = 1
  /\ tickPending
  /\ sigArrived


\* ------------------------------------------------------------------ C21
\* The position in e of the first quote at or after position p that is not
\* part of an escape, or 0 when there is none: where a string literal whose
\* content starts at p ends.
RECURSIVE LiteralEnd(_, _)
LiteralEnd(e, p) ==
  IF p > Len(e) THEN 0
  ELSE IF e[p] = "\"" THEN p
  ELSE IF e[p] = "\\" THEN LiteralEnd(e, p + 2)
  ELSE LiteralEnd(e, p + 1)

\* The character a \uXXXX escape stands for.
HexChar(h) ==
  CASE h = <<"0", "0", "0", "1">> -> "SOH"
    [] h = <<"0", "0", "3", "c">> -> "<"
    [] h = <<"f", "f", "f", "d">> -> "U+FFFD"
    [] h = <<"2", "0", "2", "8">> -> "U+2028"
    [] OTHER -> "?"

\* The text a string literal with content b stands for, as the engine reads
\* it.
RECURSIVE Unquote(_)
Unquote(b) ==
  IF b = << >> THEN << >>
  ELSE IF b[1] # "\\" THEN << b[1] >> \o Unquote(Tail(b))
  ELSE IF Len(b) = 1 THEN << "?" >>
  ELSE IF b[2] = "u"
    THEN << HexChar(SubSeq(b, 3, 6)) >> \o Unquote(SubSeq(b, 7, Len(b)))
  ELSE IF b[2] = "n" THEN << "\n" >> \o Unquote(SubSeq(b, 3, Len(b)))
  ELSE << b[2] >> \o Unquote(SubSeq(b, 3, Len(b)))

\* The expression e is RenderPre, one string literal that stands for text,
\* and then exactly rest.
CallOfOneLiteral(e, text, rest) ==
  LET start == Len(RenderPre) + 2
      end == LiteralEnd(e, start)
  IN  /\ HasPrefix(e, RenderPre \o <<"\"">>)
      /\ end > 0
      /\ SubSeq(e, end + 1, Len(e)) = rest
      /\ Unquote(SubSeq(e, start, end - 1)) = text

\* The expression sent by the Render call that is unanswered.
Sent == calls[Len(calls)].js

\* A text with U+FFFD in place of each byte that is not valid UTF-8.
Replaced(s) == [k \in 1..Len(s) |-> IF s[k] = "xFF" THEN "U+FFFD" ELSE s[k]]

\* C21 as stated: for every source text, the expression sent is
\* "renderSVG(", one string literal and ")", and the literal stands for
\* exactly the source text.
C21_LiteralThenSuffix ==
  pc = "inflight" => CallOfOneLiteral(Sent, src, RenderPost)

\* C21, amended: for every source text, the expression sent is "renderSVG(",
\* one string literal, a newline and ")", and the literal stands for the
\* source text with U+FFFD in place of each byte that is not valid UTF-8; so
\* the content cannot change the structure of the call.
C21_LiteralNewlineSuffix ==
  pc = "inflight" =>
    CallOfOneLiteral(Sent, Replaced(src), <<"\n">> \o RenderPost)

\* C21's case: the call for a source that is a quote and a closing
\* parenthesis is unanswered; both are inside the literal.
C21_Witness ==
  /\ pc = "inflight"
  /\ src = <<"\"", ")">>
  /\ Sent = RenderPre \o <<"\"", "\\", "\"", ")", "\"", "\n", ")">>

\* C21's second case: the source holds a byte that is not valid UTF-8 and a
\* backslash; the literal stands for U+FFFD and the backslash.
C21_WitnessInvalidByte ==
  /\ pc = "inflight"
  /\ src = <<"xFF", "\\">>
  /\ Sent = RenderPre
              \o <<"\"", "\\", "u", "f", "f", "f", "d", "\\", "\\", "\"">>
              \o <<"\n", ")">>


\* ------------------------------------------------------------------ C22
\* A tick's loop over the pairs is running.
InTickPass == pc = "tick" \/ (InRender /\ ret = "tick")

\* The Render calls of the present pass for the source file n.
CallsForFile(n) ==
  Cardinality({ k \in 1..Len(calls) : pairs[calls[k].pair].mmdName = n })

\* The steps by which a tick renders: render is entered only for a source
\* whose present time is later than its entry, and the entry becomes that
\* time; the content read is the file's present content; and the one call
\* issued sends that content.
TickRendersPresent ==
  /\ (TickLoopStep /\ pc' = "read")
       => (/\ files[CurName].mtime > modTimes[CurName]
           /\ modTimes'[CurName] = files[CurName].mtime)
  /\ (pc = "read" /\ ret = "tick" /\ pc' = "call")
       => src' = files[CurName].doc
  /\ (pc = "call" /\ ret = "tick" /\ pc' = "inflight")
       => (/\ Len(calls') = Len(calls) + 1
           /\ calls'[Len(calls')].pair = PairIndex(i)
           /\ calls'[Len(calls')].js = JsonEncodeJS(RenderPre, src, RenderPost))
  /\ (InTickPass /\ calls' # calls)
       => \/ pc = "call" /\ pc' = "inflight"
          \/ pc = "tick" /\ pc' = "select" /\ calls' = << >>

\* C22 as stated: however often the source files are edited and whichever
\* ticks are missed, a processed tick issues at most one Render call for a
\* source file, with the time and the content the file has at that tick.
C22_OneCallPerFile ==
  /\ [](InTickPass => \A n \in DocSet : CallsForFile(n) <= 1)
  /\ [][TickRendersPresent]_vars

\* C22, amended: however often the source files are edited and whichever
\* ticks are missed, a processed tick issues at most one Render call for each
\* place a source file has on the command line, with the time and the content
\* the file has at that tick.
C22_OneCallPerPair ==
  /\ [](InTickPass => \A k \in 1..Len(pairs) : CallsFor(k) <= 1)
  /\ [](InTickPass => Len(calls) <= Len(pairs))
  /\ [][TickRendersPresent]_vars

\* C22's case: a.mmd, rendered in the initial pass, has been edited twice
\* before a processed tick; that tick's one Render call, for the second
\* edit's content, is unanswered, a.svg still holds the render of the first
\* content, and a tick missed during the render waits in the ticker's channel.
C22_Witness ==
  /\ pc = "inflight"
  /\ ret = "tick"
  /\ args = << DocNames[1] >>
  /\ files[CurName] = [mtime |-> MaxEdits, doc |-> Graph \o <<"a", "a">>]
  /\ src = files[CurName].doc
  /\ modTimes[CurName] = MaxEdits
  /\ out[CurOut] = RenderSVG(Graph)
  /\ Len(calls) = 1
  /\ tickPending

\* The case in which C22 as stated fails: a.mmd is given twice and is edited
\* again while the tick's render of its first place is running; the tick
\* issues a second Render call for the file, for its second place.
C22_WitnessTwoPlaces ==
  /\ pc = "inflight"
  /\ ret = "tick"
  /\ args = << DocNames[1], DocNames[1] >>
  /\ i = 2
  /\ Len(calls) = 2
  /\ CallsForFile(DocNames[1]) = 2


====
